---- MODULE Spec2Model ----
(***************************************************************************)
(* The two theme scripts of the repository:                                *)
(*   fix_ui.py            the Color Brightener (a batch over two files)     *)
(*   remove_solid_bg.py   the Background Transparency Adjuster (one file)   *)
(* Texts are TLA+ strings handled character by character, so that          *)
(* str.replace and the `in` test are computed as Python computes them.     *)
(***************************************************************************)
EXTENDS Integers, Sequences, FiniteSets

VARIABLES
    job,        \* the script whose body runs: "fix_ui" or "remove_solid_bg"
    filepath,   \* the path the body works on
    content,    \* the script's variable `content`
    k,          \* how many replace statements of the body ran on content
    pc,         \* the statement the script is at
    orig,       \* the text the first pass over a text started from
    hist,       \* the passes completed over that text: <<[job, out], ...>>
    disk,       \* the file system: path -> text of the file
    idx,        \* the position of filepath in the script's list of files
    stdout,     \* the lines printed by the running script
    log,        \* the file operations of the running script, in order
    runs,       \* how many scripts were started
    disk0,      \* the file system as it was when the running script started
    failed      \* the traceback: [at |-> position of the file, stmt |-> statement
                \* that raised], at = 0 while nothing raised

vars == <<job, filepath, content, k, pc, orig, hist, disk, idx, stdout, log,
          runs, disk0, failed>>
iovars == <<disk, idx, stdout, log, runs, disk0, failed>>

(***************************** bounds **************************************)
MaxPasses == 2
MaxTokens == 2
MaxRuns == 2

NoFailure == [at |-> 0, stmt |-> ""]

(************************ str methods of Python ****************************)
\* s[i : i + len(p)] == p, positions counted from 1
StartsAt(s, p, i) ==
    /\ i + Len(p) - 1 <= Len(s)
    /\ SubSeq(s, i, i + Len(p) - 1) = p

\* the positions >= i where p occurs in s
Occurrences(s, p, i) == { j \in i..(Len(s) - Len(p) + 1) : StartsAt(s, p, j) }

\* s.find(p, i): the first position >= i where p occurs, 0 when there is none
Find(s, p, i) ==
    LET occ == Occurrences(s, p, i) IN
    IF occ = {} THEN 0 ELSE CHOOSE j \in occ : \A m \in occ : j <= m

\* p in s
Contains(s, p) == Find(s, p, 1) # 0

\* faulty variant: the text after the last occurrence is dropped
RECURSIVE Replace_DropsTail(_, _, _)
Replace_DropsTail(s, old, new) ==
    LET i == Find(s, old, 1) IN
    IF i = 0 THEN ""
    ELSE SubSeq(s, 1, i - 1) \o new
         \o Replace_DropsTail(SubSeq(s, i + Len(old), Len(s)), old, new)

\* s.replace(old, new) for a non-empty old: every non-overlapping occurrence,
\* found left to right, the scan resuming after the replaced occurrence
RECURSIVE Replace(_, _, _)
Replace(s, old, new) ==
    LET i == Find(s, old, 1) IN
    IF i = 0 THEN s
    ELSE SubSeq(s, 1, i - 1) \o new
         \o Replace(SubSeq(s, i + Len(old), Len(s)), old, new)

\* s.count(p): the number of non-overlapping occurrences
RECURSIVE Count(_, _)
Count(s, p) ==
    LET i == Find(s, p, 1) IN
    IF i = 0 THEN 0 ELSE 1 + Count(SubSeq(s, i + Len(p), Len(s)), p)

(***************************** fix_ui.py ***********************************)
PagePath == "/Applications/My Mac/Development/Projects/IndiaNext/hackathon-website/app/page.tsx"
FormPath == "/Applications/My Mac/Development/Projects/IndiaNext/hackathon-website/app/components/HackathonForm.tsx"

files_to_update == <<PagePath, FormPath>>

\* lines 13-17
GrayRules ==
    << <<"text-gray-700", "text-gray-400">>,
       <<"text-gray-600", "text-gray-300">>,
       <<"text-gray-500", "text-gray-200">>,
       <<"text-gray-400", "text-gray-100">>,
       <<"text-gray-300", "text-white">> >>

\* lines 19-21
SlateRules ==
    << <<"text-slate-600", "text-slate-300">>,
       <<"text-slate-500", "text-slate-200">>,
       <<"text-slate-400", "text-slate-100">> >>

\* faulty variant: the gray rules run lightest first, so that no rule rewrites the
\* output of an earlier one
CommonRules_LightestFirst ==
    << GrayRules[5], GrayRules[4], GrayRules[3], GrayRules[2], GrayRules[1] >>
    \o SlateRules

CommonRules == GrayRules \o SlateRules

\* faulty variant: the root wrapper gets another gradient than the one
\* remove_solid_bg.py looks for
PageRules_OtherGradient ==
    << <<"bg-[#050505]", "bg-[#0f0c29]">>,
       <<"bg-black", "bg-[#151232]">>,
       <<"className=\"min-h-screen bg-[#0f0c29]",
         "className=\"min-h-screen bg-gradient-to-br from-[#0f0c29] via-[#302b63] to-[#151232]">> >>

\* lines 27-32, under `if "page.tsx" in filepath`
PageRules ==
    << <<"bg-[#050505]", "bg-[#0f0c29]">>,
       <<"bg-black", "bg-[#151232]">>,
       <<"className=\"min-h-screen bg-[#0f0c29]",
         "className=\"min-h-screen bg-gradient-to-br from-[#0f0c29] via-[#302b63] to-[#24243e]">> >>

\* lines 35-36, under `if "HackathonForm.tsx" in filepath`
FormRules ==
    << <<"bg-slate-950", "bg-[#0f0c29]">>,
       <<"bg-slate-900", "bg-[#151232]">> >>

\* faulty variant: the page rules run for every path
fix_ui_rules_PageAlways(path) ==
    CommonRules
    \o PageRules
    \o (IF Contains(path, "HackathonForm.tsx") THEN FormRules ELSE << >>)

\* the replace statements the loop body runs for one path, in order
fix_ui_rules(path) ==
    CommonRules
    \o (IF Contains(path, "page.tsx") THEN PageRules ELSE << >>)
    \o (IF Contains(path, "HackathonForm.tsx") THEN FormRules ELSE << >>)

(************************* remove_solid_bg.py ******************************)
cyber_str_old ==
    "const CyberBackground = () => (\n"
    \o "    <div className=\"fixed inset-0 z-0 bg-black/20 perspective-1000 overflow-hidden\">\n"
    \o "        {/* Deep Space Base */}\n"
    \o "        <div className=\"absolute inset-0 bg-[radial-gradient(circle_at_center,#0d0d1a_0%,#000000_100%)]\" />"

cyber_str_new ==
    "const CyberBackground = () => (\n"
    \o "    <div className=\"fixed inset-0 z-0 perspective-1000 overflow-hidden border-none mix-blend-screen pointer-events-none\">\n"
    \o "        {/* Removed black radial gradient to reveal main page gradient */}\n"

WrapperTail ==
    " text-white font-sans selection:bg-orange-500/30 selection:text-orange-200 overflow-x-hidden\""

old_wrapper ==
    "className=\"min-h-screen bg-gradient-to-br from-[#0f0c29] via-[#302b63] to-[#24243e]"
    \o WrapperTail

new_wrapper ==
    "className=\"min-h-screen bg-gradient-to-b from-[#111A31] via-[#2F1D51] to-[#1F1738]"
    \o WrapperTail

\* faulty variant: the bg-[#0f0c29] statement of line 9 is missing
remove_solid_bg_rules_NoLine9 ==
    << <<"bg-[#151232]", "bg-black/20">>,
       <<cyber_str_old, cyber_str_new>>,
       <<old_wrapper, new_wrapper>> >>

\* lines 8, 9, 18, 23
remove_solid_bg_rules ==
    << <<"bg-[#151232]", "bg-black/20">>,
       <<"bg-[#0f0c29]", "bg-black/20">>,
       <<cyber_str_old, cyber_str_new>>,
       <<old_wrapper, new_wrapper>> >>

(************************** rule application *******************************)
Jobs == {"fix_ui", "remove_solid_bg"}

\* the replace statements script j runs on the file at path
RulesOf(j, path) ==
    IF j = "fix_ui" THEN fix_ui_rules(path) ELSE remove_solid_bg_rules

\* the first n rules of a list applied in order, each on the previous output
RECURSIVE ApplyRules(_, _, _)
ApplyRules(s, rules, n) ==
    IF n = 0 THEN s
    ELSE Replace(ApplyRules(s, rules, n - 1), rules[n][1], rules[n][2])

(***************************** input texts *********************************)
\* the root wrapper of page.tsx before either script ran
RootWrapper ==
    "<div className=\"min-h-screen bg-[#050505]" \o WrapperTail \o ">"

\* the CyberBackground block of page.tsx before either script ran
CyberOrig ==
    "const CyberBackground = () => (\n"
    \o "    <div className=\"fixed inset-0 z-0 bg-black perspective-1000 overflow-hidden\">\n"
    \o "        {/* Deep Space Base */}\n"
    \o "        <div className=\"absolute inset-0 bg-[radial-gradient(circle_at_center,#0d0d1a_0%,#000000_100%)]\" />"

ScenarioTexts ==
    { "text-gray-700 bg-black", "text-gray-700", "bg-[#050505]",
      "bg-slate-950 bg-slate-900", "bg-[#0f0c29]", "bg-[#151232] bg-[#0f0c29]",
      "bg-slate-950 bg-slate-900 bg-[#050505] bg-black text-gray-500",
      "className=\"min-h-screen bg-slate-950\"",
      "font-sans antialiased", RootWrapper, CyberOrig }

Tokens ==
    { "text-gray-700", "text-gray-600", "text-gray-500", "text-gray-400",
      "text-gray-300", "text-slate-600", "text-slate-500", "text-slate-400",
      "text-gray-200", "bg-black", "hover:text-gray-500",
      "text-gray-300xt-gray-700", "text-gray-600xt-gray-400" }

\* the tokens of a sequence joined by single spaces
RECURSIVE Join(_)
Join(ts) ==
    IF Len(ts) = 0 THEN ""
    ELSE IF Len(ts) = 1 THEN ts[1]
    ELSE ts[1] \o " " \o Join(Tail(ts))

TokenSeqs == UNION { [1..n -> Tokens] : n \in 0..MaxTokens }
TokenTexts == { Join(ts) : ts \in TokenSeqs }

OtherPath == "/Applications/My Mac/Development/Projects/IndiaNext/hackathon-website/app/layout.tsx"
BothPath == "/Applications/My Mac/Development/Projects/IndiaNext/hackathon-website/app/page.tsx.d/HackathonForm.tsx"
PathInputs == {PagePath, FormPath, OtherPath, BothPath}

\* the scripts that can be pointed at a path: remove_solid_bg.py opens page.tsx only
JobsOn(path) == IF path = PagePath THEN Jobs ELSE {"fix_ui"}

(********************* the replace statements, one by one ******************)
\* the next replace statement of the running body
ApplyRule ==
    /\ pc = "rules"
    /\ k < Len(RulesOf(job, filepath))
    /\ LET r == RulesOf(job, filepath)[k + 1] IN
         content' = Replace(content, r[1], r[2])
    /\ k' = k + 1
    /\ UNCHANGED <<job, filepath, pc, orig, hist, iovars>>

(************ specification of the script bodies as text functions *********)
InitRules ==
    /\ \/ filepath \in PathInputs /\ orig \in ScenarioTexts
       \/ filepath = FormPath /\ orig \in TokenTexts
    /\ job \in JobsOn(filepath)
    /\ content = orig
    /\ k = 0
    /\ pc = "rules"
    /\ hist = << >>
    /\ disk = [p \in {} |-> ""]
    /\ idx = 1
    /\ stdout = << >>
    /\ log = << >>
    /\ runs = 0
    /\ disk0 = disk
    /\ failed = NoFailure

\* a body ran to its end and a script is run on its output
NextPass ==
    /\ pc = "rules"
    /\ k = Len(RulesOf(job, filepath))
    /\ Len(hist) + 1 < MaxPasses
    /\ hist' = Append(hist, [job |-> job, out |-> content])
    /\ job' \in JobsOn(filepath)
    /\ k' = 0
    /\ UNCHANGED <<filepath, content, pc, orig, iovars>>

NextRules == ApplyRule \/ NextPass

SpecRules == InitRules /\ [][NextRules]_vars

(******************** the scripts as programs over files *******************)
Paths == {PagePath, FormPath}

PageTexts ==
    { "font-sans antialiased", "text-gray-700 bg-black",
      RootWrapper \o "\n<p className=\"text-slate-500 bg-[#0f0c29]\">" }

FormTexts ==
    { "font-sans antialiased", "bg-slate-950 bg-slate-900 text-gray-600" }

\* faulty variant: the second file of the list is opened first
Files_Reversed(j) == IF j = "fix_ui" THEN <<FormPath, PagePath>> ELSE <<PagePath>>

\* the paths a script opens, in order
Files(j) == IF j = "fix_ui" THEN files_to_update ELSE <<PagePath>>

\* faulty variant: an exception is swallowed and the script goes on after the file
Unhandled_Swallowed == "next"

\* no statement of either script catches an exception: it ends the process
Unhandled == "crash"

\* the line script j writes to the console at its end
Summary(j, s) ==
    IF j = "fix_ui" THEN <<"str", "Replaced gray text colors and backgrounds!">>
    ELSE <<"int", Count(s, "bg-gradient-to-b")>>

Init ==
    /\ disk \in [Paths -> PageTexts \cup FormTexts]
    /\ disk[PagePath] \in PageTexts
    /\ disk[FormPath] \in FormTexts
    /\ disk0 = disk
    /\ pc = "idle"
    /\ job = "fix_ui"
    /\ filepath = PagePath
    /\ idx = 1
    /\ content = ""
    /\ orig = ""
    /\ k = 0
    /\ hist = << >>
    /\ stdout = << >>
    /\ log = << >>
    /\ runs = 0
    /\ failed = NoFailure

\* `python fix_ui.py` or `python remove_solid_bg.py` is started
Start(j) ==
    /\ pc \in {"idle", "exit", "crash"}
    /\ runs < MaxRuns
    /\ runs' = runs + 1
    /\ job' = j
    /\ idx' = 1
    /\ filepath' = Files(j)[1]
    /\ pc' = "open_r"
    /\ content' = ""
    /\ orig' = ""
    /\ k' = 0
    /\ stdout' = << >>
    /\ log' = << >>
    /\ disk0' = disk
    /\ failed' = NoFailure
    /\ UNCHANGED <<hist, disk>>

\* statement stmt raises and the exception leaves the script
Raise(stmt) ==
    /\ pc' = Unhandled
    /\ failed' = [at |-> idx, stmt |-> stmt]
    /\ UNCHANGED <<job, filepath, content, k, orig, hist, idx, stdout, log, runs, disk0>>

\* open(filepath, 'r')
OpenRead ==
    /\ pc = "open_r"
    /\ pc' = "read"
    /\ UNCHANGED <<job, filepath, content, k, orig, hist, iovars>>

OpenReadFail ==
    /\ pc = "open_r"
    /\ Raise("open_r")
    /\ UNCHANGED disk

\* content = f.read()
Read ==
    /\ pc = "read"
    /\ content' = disk[filepath]
    /\ orig' = disk[filepath]
    /\ k' = 0
    /\ log' = Append(log, <<"read", filepath>>)
    /\ pc' = "rules"
    /\ UNCHANGED <<job, filepath, hist, disk, idx, stdout, runs, disk0, failed>>

ReadFail ==
    /\ pc = "read"
    /\ Raise("read")
    /\ UNCHANGED disk

\* open(filepath, 'w'): the file is truncated
OpenWrite ==
    /\ pc = "rules"
    /\ k = Len(RulesOf(job, filepath))
    /\ disk' = [disk EXCEPT ![filepath] = ""]
    /\ pc' = "write"
    /\ UNCHANGED <<job, filepath, content, k, orig, hist, idx, stdout, log, runs, disk0, failed>>

OpenWriteFail ==
    /\ pc = "rules"
    /\ k = Len(RulesOf(job, filepath))
    /\ Raise("open_w")
    /\ UNCHANGED disk

\* f.write(content) and the close at the end of the with block
Write ==
    /\ pc = "write"
    /\ disk' = [disk EXCEPT ![filepath] = content]
    /\ log' = Append(log, <<"write", filepath>>)
    /\ pc' = "next"
    /\ UNCHANGED <<job, filepath, content, k, orig, hist, idx, stdout, runs, disk0, failed>>

\* the write raises: some prefix of the text reached the file
WriteFail ==
    /\ pc = "write"
    /\ \E n \in {0, Len(content) \div 2} :
          disk' = [disk EXCEPT ![filepath] = SubSeq(content, 1, n)]
    /\ Raise("write")

\* the for loop takes the next path of the list
NextFile ==
    /\ pc = "next"
    /\ idx < Len(Files(job))
    /\ idx' = idx + 1
    /\ filepath' = Files(job)[idx + 1]
    /\ pc' = "open_r"
    /\ UNCHANGED <<job, content, k, orig, hist, disk, stdout, log, runs, disk0, failed>>

\* the print after the last file
PrintSummary ==
    /\ pc = "next"
    /\ idx = Len(Files(job))
    /\ stdout' = Append(stdout, Summary(job, content))
    /\ pc' = "exit"
    /\ UNCHANGED <<job, filepath, content, k, orig, hist, disk, idx, log, runs, disk0, failed>>

Next ==
    \/ \E j \in Jobs : Start(j)
    \/ OpenRead
    \/ OpenReadFail
    \/ Read
    \/ ReadFail
    \/ ApplyRule
    \/ OpenWrite
    \/ OpenWriteFail
    \/ Write
    \/ WriteFail
    \/ NextFile
    \/ PrintSummary

Spec == Init /\ [][Next]_vars

(***************************************************************************)
(* Claims about the script bodies as text functions, under SpecRules.      *)
(***************************************************************************)
CommonPatterns == { CommonRules[i][1] : i \in 1..Len(CommonRules) }

\* the common rules of fix_ui.py have just run on the text the passes started from
AfterCommonFirst ==
    pc = "rules" /\ job = "fix_ui" /\ hist = << >> /\ k = Len(CommonRules)

\* a body has run to its end on the text the passes started from
AfterBodyFirst(j) ==
    pc = "rules" /\ job = j /\ hist = << >> /\ k = Len(RulesOf(j, filepath))

\* fix_ui.py's body ran once and runs a second time, n rules into the second run
SecondFixUi(n) ==
    /\ pc = "rules" /\ job = "fix_ui" /\ k = n
    /\ Len(hist) = 1 /\ hist[1].job = "fix_ui"

\* C1: the common rules turn "text-gray-700 bg-black" into
\* "text-gray-400 bg-black".
C1_Scenario1 ==
    (AfterCommonFirst /\ orig = "text-gray-700 bg-black")
        => content = "text-gray-400 bg-black"

C6_Text == "bg-slate-950 bg-slate-900 bg-[#050505] bg-black text-gray-500"
C6_Order == "className=\"min-h-screen bg-slate-950\""

\* C6: fix_ui.py runs the common rules and then the page rules only for a
\* path that contains "page.tsx" and the form rules only for a path that
\* contains "HackathonForm.tsx", the page rules first; a path that contains
\* neither gets the eight common rules alone.
C6_ConditionalSubsets ==
    /\ (pc = "rules" /\ job = "fix_ui" /\ filepath = OtherPath)
          => k <= Len(CommonRules)
    /\ AfterBodyFirst("fix_ui") =>
          /\ (filepath = PagePath /\ orig = C6_Text) => content =
                "bg-slate-950 bg-slate-900 bg-[#0f0c29] bg-[#151232] text-gray-200"
          /\ (filepath = FormPath /\ orig = C6_Text) => content =
                "bg-[#0f0c29] bg-[#151232] bg-[#050505] bg-black text-gray-200"
          /\ (filepath = OtherPath /\ orig = C6_Text) => content =
                "bg-slate-950 bg-slate-900 bg-[#050505] bg-black text-gray-200"
          /\ (filepath = BothPath /\ orig = C6_Text) => content =
                "bg-[#0f0c29] bg-[#151232] bg-[#0f0c29] bg-[#151232] text-gray-200"
          /\ (filepath = BothPath /\ orig = C6_Order) => content =
                "className=\"min-h-screen bg-[#0f0c29]\""
          /\ (filepath = FormPath /\ orig = "bg-slate-950 bg-slate-900")
                => content = "bg-[#0f0c29] bg-[#151232]"
          /\ (filepath = PagePath /\ orig = "bg-[#050505]")
                => content = "bg-[#0f0c29]"
          /\ ~Contains(filepath, "HackathonForm.tsx") =>
                /\ Count(content, "bg-slate-950") = Count(orig, "bg-slate-950")
                /\ Count(content, "bg-slate-900") = Count(orig, "bg-slate-900")
          /\ ~Contains(filepath, "page.tsx") =>
                /\ Count(content, "bg-[#050505]") = Count(orig, "bg-[#050505]")
                /\ Count(content, "bg-black") = Count(orig, "bg-black")

C6_Witness ==
    /\ AfterBodyFirst("fix_ui") /\ filepath = FormPath /\ orig = C6_Text
    /\ content = "bg-[#0f0c29] bg-[#151232] bg-[#050505] bg-black text-gray-200"

\* C7: remove_solid_bg.py turns "bg-[#0f0c29]" into "bg-black/20", and rewrites
\* bg-[#151232] and bg-[#0f0c29] alike to bg-black/20, leaving neither behind.
C7_Translucent ==
    AfterBodyFirst("remove_solid_bg") =>
        /\ orig = "bg-[#0f0c29]" => content = "bg-black/20"
        /\ orig = "bg-[#151232] bg-[#0f0c29]" => content = "bg-black/20 bg-black/20"
        /\ ~Contains(content, "bg-[#151232]")
        /\ ~Contains(content, "bg-[#0f0c29]")

C7_Witness ==
    /\ AfterBodyFirst("remove_solid_bg")
    /\ orig = "bg-[#151232] bg-[#0f0c29]" /\ content = "bg-black/20 bg-black/20"

\* C8: on the root wrapper of page.tsx, fix_ui.py followed by
\* remove_solid_bg.py ends with the bg-gradient-to-b wrapper; remove_solid_bg.py
\* run first or alone leaves the wrapper as it was, and fix_ui.py run after it
\* ends with the bg-gradient-to-br wrapper: the two orders differ.
C8_OrderMatters ==
    (pc = "rules" /\ filepath = PagePath /\ orig = RootWrapper) =>
        /\ (job = "remove_solid_bg" /\ k = Len(remove_solid_bg_rules)
                /\ Len(hist) = 1 /\ hist[1].job = "fix_ui")
              => content = "<div " \o new_wrapper \o ">"
        /\ AfterBodyFirst("remove_solid_bg") => content = RootWrapper
        /\ (job = "fix_ui" /\ k = Len(fix_ui_rules(PagePath))
                /\ Len(hist) = 1 /\ hist[1].job = "remove_solid_bg")
              => (content = "<div " \o old_wrapper \o ">"
                    /\ ~Contains(content, new_wrapper))

C8_Witness ==
    /\ pc = "rules" /\ filepath = PagePath /\ orig = RootWrapper
    /\ job = "remove_solid_bg" /\ k = Len(remove_solid_bg_rules)
    /\ Len(hist) = 1 /\ hist[1].job = "fix_ui"
    /\ Contains(content, new_wrapper)

(***************************************************************************)
(* Claims about the scripts as programs over files, under Spec.            *)
(***************************************************************************)
\* the whole body of script j applied to the text s of the file at path
Body(j, path, s) == ApplyRules(s, RulesOf(j, path), Len(RulesOf(j, path)))

IsPrefix(a, b) == Len(a) <= Len(b) /\ a = SubSeq(b, 1, Len(a))

\* the file operations of a complete run, from the list at fix_ui.py:3-6 and
\* the path at remove_solid_bg.py:3
IdealLog(j) ==
    IF j = "fix_ui"
    THEN << <<"read", PagePath>>, <<"write", PagePath>>,
            <<"read", FormPath>>, <<"write", FormPath>> >>
    ELSE << <<"read", PagePath>>, <<"write", PagePath>> >>

\* the file operations done when the file at position n fails in stmt
LogAtFailure(j, n, stmt) ==
    SubSeq(IdealLog(j), 1, 2 * (n - 1))
    \o (IF stmt \in {"open_w", "write"} THEN <<IdealLog(j)[2 * n - 1]>> ELSE << >>)

\* C3: when the open, read or write of the file at position N of the list
\* raises, the files before N keep their rewritten text, the files after N
\* are neither read nor written, nothing is printed, and the script does
\* nothing more: the only step after the failure is a new start of a script.
C3_AbortsBatch ==
    [][ /\ failed'.at # 0 =>
              LET fs == IF job' = "fix_ui" THEN files_to_update ELSE <<PagePath>>
                  N == failed'.at IN
              /\ stdout' = << >>
              /\ log' = LogAtFailure(job', N, failed'.stmt)
              /\ \A i \in 1..Len(fs) :
                    /\ i < N => disk'[fs[i]] = Body(job', fs[i], disk0'[fs[i]])
                    /\ i > N => disk'[fs[i]] = disk0'[fs[i]]
        /\ failed.at # 0 => (runs' = runs + 1 /\ pc' = "open_r")
      ]_vars

C3_Witness ==
    /\ pc = "crash" /\ job = "fix_ui" /\ failed.at = 2
    /\ disk0[PagePath] = "text-gray-700 bg-black"
    /\ disk[PagePath] = "text-gray-100 bg-[#151232]"
    /\ disk[FormPath] = disk0[FormPath]

\* C4: the file operations of a run are always a prefix of: read file 1,
\* write file 1, read file 2, write file 2 (in list order, each once); a
\* write happens when every rule of the body ran and stores the body's result
\* on the text read; the summary is printed once, after the last write, and
\* a run that ends normally did all of it.
C4_ReadOnceWriteOnce ==
    [][ /\ IsPrefix(log', IdealLog(job'))
        /\ stdout' # << >> => (log' = IdealLog(job') /\ Len(stdout') = 1)
        /\ pc' = "exit" => stdout' # << >>
        /\ (Len(log') = Len(log) + 1 /\ log'[Len(log')][1] = "write") =>
              /\ k = Len(RulesOf(job, filepath))
              /\ log'[Len(log')][2] = filepath
              /\ disk'[filepath] = Body(job, filepath, disk0[filepath])
      ]_vars

C4_Witness ==
    /\ pc = "exit" /\ job = "fix_ui" /\ log = IdealLog("fix_ui")
    /\ Len(stdout) = 1
    /\ disk[FormPath] = "bg-[#0f0c29] bg-[#151232] text-white"

\* none of the patterns script j applies to the file at path occurs in s
NoPatternOf(j, path, s) ==
    \A i \in 1..Len(RulesOf(j, path)) : ~Contains(s, RulesOf(j, path)[i][1])

\* C5: a replace statement whose pattern does not occur in the text leaves
\* the text as it is and the script goes on; and a file in which none of the
\* patterns of the script's rules for it occurs is written back as read.
C5_AbsentPatternNoOp ==
    [][ /\ (pc = "rules" /\ k' = k + 1
               /\ ~Contains(content, RulesOf(job, filepath)[k + 1][1]))
              => (content' = content /\ pc' = "rules")
        /\ (pc = "write" /\ pc' = "next"
               /\ NoPatternOf(job, filepath, disk0[filepath]))
              => disk'[filepath] = disk0[filepath]
      ]_vars

C5_Witness ==
    /\ pc = "next" /\ job = "remove_solid_bg"
    /\ disk0[filepath] = "text-gray-700 bg-black"
    /\ disk[filepath] = "text-gray-700 bg-black"

\* the whitespace-delimited tokens of a text (the texts here use single spaces)
RECURSIVE Split(_)
Split(s) ==
    LET i == Find(s, " ", 1) IN
    IF i = 0 THEN <<s>>
    ELSE <<SubSeq(s, 1, i - 1)>> \o Split(SubSeq(s, i + 1, Len(s)))

\* the net effect C9 states for the class names it lists
NetEffect ==
    [t \in CommonPatterns |->
        CASE t \in {"text-gray-700", "text-gray-400"} -> "text-gray-100"
          [] t \in {"text-gray-600", "text-gray-300"} -> "text-white"
          [] t = "text-gray-500" -> "text-gray-200"
          [] t = "text-slate-600" -> "text-slate-300"
          [] t = "text-slate-500" -> "text-slate-200"
          [] t = "text-slate-400" -> "text-slate-100"]

HasPattern(t) == \E p \in CommonPatterns : Contains(t, p)

\* C9 as stated: after the common rules every token that is one of the eight
\* class names is mapped as listed and every other token is unchanged.
C9_Original ==
    AfterCommonFirst =>
        LET in == Split(orig)
            out == Split(content) IN
        /\ Len(out) = Len(in)
        /\ \A i \in 1..Len(in) :
              out[i] = IF in[i] \in CommonPatterns THEN NetEffect[in[i]] ELSE in[i]

\* C9 amended: after the common rules every token that is one of the eight
\* class names is mapped as listed (700 and 400 to text-gray-100, 600 and 300
\* to text-white, 500 to text-gray-200, slate 600/500/400 to slate 300/200/100)
\* and every token that contains none of the eight patterns is unchanged.
C9_NetEffect ==
    AfterCommonFirst =>
        LET in == Split(orig)
            out == Split(content) IN
        /\ Len(out) = Len(in)
        /\ \A i \in 1..Len(in) :
              /\ in[i] \in CommonPatterns => out[i] = NetEffect[in[i]]
              /\ ~HasPattern(in[i]) => out[i] = in[i]

C9_Witness ==
    /\ AfterCommonFirst /\ orig = "text-gray-600 text-gray-700"
    /\ content = "text-white text-gray-100"

\* no occurrence of text-gray-300 or of text-gray-600 (which the second rule
\* turns into text-gray-300) is directly followed by "xt-gray-"
NoGlue(s) ==
    /\ ~Contains(s, "text-gray-300xt-gray-")
    /\ ~Contains(s, "text-gray-600xt-gray-")

\* C10 as stated: for every input text, the output of the common rules
\* contains none of the eight common patterns.
C10_Original ==
    AfterCommonFirst => ~HasPattern(content)

\* C10 amended: for every input text in which no text-gray-300 or
\* text-gray-600 is directly followed by "xt-gray-", the output of the common
\* rules contains none of the eight common patterns, and the common rules of a
\* second run of fix_ui.py change nothing.
C10_NoPatternLeft ==
    NoGlue(orig) =>
        /\ AfterCommonFirst => ~HasPattern(content)
        /\ \A n \in 0..Len(CommonRules) : SecondFixUi(n) => content = hist[1].out

C10_Witness ==
    /\ SecondFixUi(Len(CommonRules)) /\ orig = "text-gray-700 text-gray-300"
    /\ content = "text-gray-100 text-white"

====
